---- MODULE Spec2Model ----
(***************************************************************************)
(* Civil Engineering Calculators (app.js) and its service worker (sw.js).  *)
(*                                                                         *)
(* Two state machines live in this module:                                 *)
(*   Spec    the calculators of app.js: an input event on a bound field    *)
(*           runs the calculator's update handler (parse, validate,        *)
(*           compute, format, draw on the calculator's 2D context);        *)
(*   SpecSW  the service worker: install, activate and the asynchronous    *)
(*           fetch handler over the Cache Storage of the origin.           *)
(*                                                                         *)
(* JavaScript Numbers are modelled as decimal floating point values with   *)
(* four significant digits (every operation rounds its exact result), plus *)
(* NaN, +Infinity and -Infinity.  Non-ASCII literals of the source are     *)
(* written in ASCII: the em dash as "<U+2014>", the superscript three as   *)
(* "^3".                                                                   *)
(***************************************************************************)
EXTENDS Integers, Sequences, FiniteSets, TLC

(***************************************************************************)
(* Numbers                                                                 *)
(***************************************************************************)

\* Mantissas stay below Base; a product of two mantissas fits a machine word.
Base == 10 ^ 4

NaN == [k |-> "nan", m |-> 0, e |-> 0]
PosInf == [k |-> "inf", m |-> 1, e |-> 0]
NegInf == [k |-> "inf", m |-> -1, e |-> 0]
Zero == [k |-> "fin", m |-> 0, e |-> 0]

Abs(i) == IF i < 0 THEN -i ELSE i
Sgn(i) == IF i < 0 THEN -1 ELSE IF i > 0 THEN 1 ELSE 0

RECURSIVE Pow10(_)
Pow10(n) == IF n <= 0 THEN 1 ELSE 10 * Pow10(n - 1)

\* The canonical finite number m * 10^e: the mantissa is rounded (half away
\* from zero) to four digits and its trailing zeros are moved into e, so
\* that equal values are equal records.
RECURSIVE Norm(_, _)
Norm(m, e) ==
  IF m = 0 THEN Zero
  ELSE IF Abs(m) >= Base THEN Norm(Sgn(m) * ((Abs(m) + 5) \div 10), e + 1)
  ELSE IF Abs(m) % 10 = 0 THEN Norm(Sgn(m) * (Abs(m) \div 10), e + 1)
  ELSE [k |-> "fin", m |-> m, e |-> e]

\* An integer literal of the source.
Int2Num(i) == Norm(i, 0)
\* A decimal literal of the source: m * 10^e.
Dec(m, e) == Norm(m, e)

IsNaN(x) == x.k = "nan"
IsFinite(x) == x.k = "fin"

\* A finite non-zero number with its mantissa padded to four digits.
RECURSIVE Pad(_)
Pad(x) == IF x.m = 0 \/ Abs(x.m) * 10 >= Base THEN x
          ELSE Pad([k |-> "fin", m |-> x.m * 10, e |-> x.e - 1])

Neg(x) == IF x.k = "nan" THEN NaN ELSE [x EXCEPT !.m = -x.m]

Add(a, b) ==
  IF a.k = "nan" \/ b.k = "nan" THEN NaN
  ELSE IF a.k = "inf" /\ b.k = "inf" THEN (IF a.m = b.m THEN a ELSE NaN)
  ELSE IF a.k = "inf" THEN a
  ELSE IF b.k = "inf" THEN b
  ELSE IF a.m = 0 THEN b
  ELSE IF b.m = 0 THEN a
  ELSE LET pa == Pad(a)
           pb == Pad(b)
       IN  IF pa.e - pb.e > 5 THEN a
           ELSE IF pb.e - pa.e > 5 THEN b
           ELSE IF pa.e >= pb.e
                THEN Norm(pa.m * Pow10(pa.e - pb.e) + pb.m, pb.e)
                ELSE Norm(pa.m + pb.m * Pow10(pb.e - pa.e), pa.e)

Sub(a, b) == Add(a, Neg(b))

Mul(a, b) ==
  IF a.k = "nan" \/ b.k = "nan" THEN NaN
  ELSE IF a.k = "inf" \/ b.k = "inf"
       THEN (IF a.m = 0 \/ b.m = 0 THEN NaN
             ELSE IF Sgn(a.m) = Sgn(b.m) THEN PosInf ELSE NegInf)
  ELSE Norm(a.m * b.m, a.e + b.e)

\* IEEE division: x/0 is an infinity of x's sign, 0/0 is NaN.
Div(a, b) ==
  IF a.k = "nan" \/ b.k = "nan" THEN NaN
  ELSE IF a.k = "inf"
       THEN (IF b.k = "inf" THEN NaN
             ELSE IF Sgn(a.m) * (IF b.m < 0 THEN -1 ELSE 1) > 0 THEN PosInf
             ELSE NegInf)
  ELSE IF b.k = "inf" THEN Zero
  ELSE IF b.m = 0
       THEN (IF a.m = 0 THEN NaN ELSE IF a.m > 0 THEN PosInf ELSE NegInf)
  ELSE IF a.m = 0 THEN Zero
  ELSE LET pa == Pad(a)
           num == Abs(pa.m) * Pow10(5)
           den == Abs(b.m)
           q == (2 * num + den) \div (2 * den)
       IN  Norm(Sgn(pa.m) * Sgn(b.m) * q, pa.e - 5 - b.e)

\* The sign of a number that is not NaN: -1, 0 or 1.
Sign(x) == Sgn(x.m)

\* a < b, a <= b, a > b as JavaScript evaluates them: false when either is NaN.
Lt(a, b) == a.k # "nan" /\ b.k # "nan" /\ a # b /\
            (IF a.k = "inf" THEN a.m < 0
             ELSE IF b.k = "inf" THEN b.m > 0
             ELSE Sign(Sub(a, b)) < 0)
Le(a, b) == a.k # "nan" /\ b.k # "nan" /\ (a = b \/ Lt(a, b))
Gt(a, b) == Lt(b, a)

\* Math.min and Math.max: NaN when an argument is NaN.
MathMin(a, b) == IF a.k = "nan" \/ b.k = "nan" THEN NaN
                 ELSE IF Lt(b, a) THEN b ELSE a
MathMax(a, b) == IF a.k = "nan" \/ b.k = "nan" THEN NaN
                 ELSE IF Lt(a, b) THEN b ELSE a

(***************************************************************************)
(* Math                                                                    *)
(***************************************************************************)

MathPI == Dec(3142, -3)

\* Math.pow(x, n) for the integer exponents the source uses (2, 3, 4).
RECURSIVE PowInt(_, _)
PowInt(x, n) == IF n = 0 THEN Int2Num(1) ELSE Mul(x, PowInt(x, n - 1))

\* Sum of the series whose first term is term and whose next term is
\* term * factor / ((j + 1) * (j + 2)), j advancing by 2 (sine, cosine), or
\* term * factor / (j + 1), j advancing by 1 (exponential); it ends when a
\* term no longer changes the sum at the precision kept.
RECURSIVE Series(_, _, _, _, _, _)
Series(term, factor, j, step, left, acc) ==
  LET next == IF step = 2
              THEN Div(Mul(term, factor), Int2Num((j + 1) * (j + 2)))
              ELSE Div(Mul(term, factor), Int2Num(j + 1))
      sum == Add(acc, next)
  IN  IF left = 0 \/ sum = acc THEN acc
      ELSE Series(next, factor, j + step, step, left - 1, sum)

\* Math.sin, Math.cos and Math.tan by their power series; the arguments
\* the calculators produce from the modelled inputs are at most 2 * pi in
\* magnitude.
MathSin(x) == IF x.k # "fin" THEN NaN
              ELSE Series(x, Neg(Mul(x, x)), 1, 2, 14, x)
MathCos(x) == IF x.k # "fin" THEN NaN
              ELSE Series(Int2Num(1), Neg(Mul(x, x)), 0, 2, 14, Int2Num(1))
MathTan(x) == IF x.k # "fin" THEN NaN ELSE Div(MathSin(x), MathCos(x))
\* Math.exp: e^n * exp(f) for x = n + f >= 0 with n an integer, the
\* reciprocal for x < 0; Infinity above 709 as in double precision.
NumFloor(x) == IF x.e >= 0 THEN x.m * Pow10(x.e) ELSE x.m \div Pow10(-x.e)
ExpPos(x) == LET n == NumFloor(x)
             IN  Mul(PowInt(Dec(2718, -3), n),
                     Series(Int2Num(1), Sub(x, Int2Num(n)), 0, 1, 12,
                            Int2Num(1)))
MathExp(x) == IF x.k = "nan" THEN NaN
              ELSE IF x.k = "inf" THEN (IF x.m > 0 THEN PosInf ELSE Zero)
              ELSE IF Lt(Int2Num(709), x) THEN PosInf
              ELSE IF Lt(x, Int2Num(-745)) THEN Zero
              ELSE IF x.m < 0 THEN Div(Int2Num(1), ExpPos(Neg(x)))
              ELSE ExpPos(x)

\* Newton's iteration for the n-th root (n = 2, 3) of a positive number.
RECURSIVE Root(_, _, _, _)
Root(a, n, y, left) ==
  IF left = 0 THEN y
  ELSE LET next == Div(Add(Mul(Int2Num(n - 1), y), Div(a, PowInt(y, n - 1))),
                       Int2Num(n))
       IN  IF next = y THEN y ELSE Root(a, n, next, left - 1)

\* A first guess within a factor of ten of the n-th root of a > 0.
RootGuess(a, n) == LET p == Pad(a) IN Norm(1, (p.e + 4) \div n)

MathSqrt(x) == IF x.k = "nan" THEN NaN
               ELSE IF x.m < 0 THEN NaN
               ELSE IF x.k = "inf" THEN PosInf
               ELSE IF x.m = 0 THEN Zero
               ELSE Root(x, 2, RootGuess(x, 2), 30)

\* Math.pow(x, 2 / 3) for x >= 0 (the hydraulic radius): the cube root of
\* the square.
PowTwoThirds(x) == IF x.k = "nan" THEN NaN
                   ELSE IF x.m < 0 THEN NaN
                   ELSE IF x.k = "inf" THEN PosInf
                   ELSE IF x.m = 0 THEN Zero
                   ELSE Root(Mul(x, x), 3, RootGuess(Mul(x, x), 3), 40)

(***************************************************************************)
(* Text: parseFloat and Number.prototype.toFixed                           *)
(***************************************************************************)

Digits == <<"0", "1", "2", "3", "4", "5", "6", "7", "8", "9">>
IsDigit(c) == \E i \in 1..10 : Digits[i] = c
DigitVal(c) == (CHOOSE i \in 1..10 : Digits[i] = c) - 1

\* The decimal digits of a natural number, as a string.
RECURSIVE NatStr(_)
NatStr(n) == IF n < 10 THEN Digits[n + 1]
             ELSE NatStr(n \div 10) \o Digits[(n % 10) + 1]

RECURSIVE Zeros(_)
Zeros(n) == IF n <= 0 THEN "" ELSE "0" \o Zeros(n - 1)

\* The last n decimal digits of a natural number (zero-padded).
RECURSIVE LastDigits(_, _)
LastDigits(v, n) == IF n = 0 THEN ""
                    ELSE LastDigits(v \div 10, n - 1) \o Digits[(v % 10) + 1]

\* x.toFixed(d): the integer n nearest to x * 10^d (the larger on a tie),
\* written with d digits after the point; "-" when x < 0.
ToFixed(x, d) ==
  IF x.k = "nan" THEN "NaN"
  ELSE IF x.k = "inf" THEN (IF x.m > 0 THEN "Infinity" ELSE "-Infinity")
  ELSE LET s == IF x.m < 0 THEN "-" ELSE ""
           a == Abs(x.m)
           sh == x.e + d
       IN  IF x.e >= 0
           THEN s \o NatStr(a) \o Zeros(x.e) \o
                (IF d = 0 THEN "" ELSE "." \o Zeros(d))
           ELSE IF sh >= 0
           THEN s \o NatStr(a \div Pow10(-x.e)) \o "." \o
                LastDigits(a % Pow10(-x.e), -x.e) \o Zeros(sh)
           ELSE LET p == Pow10(-sh)
                    n == IF -sh > 8 THEN 0 ELSE (2 * a + p) \div (2 * p)
                IN  s \o NatStr(n \div Pow10(d)) \o
                    (IF d = 0 THEN "" ELSE "." \o LastDigits(n, d))

\* parseFloat(s), one character at a time.  at is the part of a decimal
\* literal the scan is in: "start" (leading blanks), "sign", "int", "frac",
\* "e" (just after e or E), "esign", "exp".  The scan keeps the mantissa
\* read so far (digits beyond the eighth are dropped), the number of decimal
\* places it stands for, the exponent read and the number of mantissa digits
\* seen.  It stops at the end of the text or at the first character that
\* cannot continue the literal; what follows is ignored.
RECURSIVE ParseScan(_, _, _, _, _, _, _, _, _)
ParseScan(s, i, at, neg, mant, places, ex, exneg, digits) ==
  IF i > Len(s)
  THEN <<neg, mant, places, IF exneg THEN -ex ELSE ex, digits>>
  ELSE IF s[i] = " " /\ at = "start"
  THEN ParseScan(s, i + 1, at, neg, mant, places, ex, exneg, digits)
  ELSE IF s[i] \in {"-", "+"} /\ at = "start"
  THEN ParseScan(s, i + 1, "sign", s[i] = "-", mant, places, ex, exneg, digits)
  ELSE IF IsDigit(s[i]) /\ at \in {"start", "sign", "int"}
  THEN IF mant < 10 ^ 7
       THEN ParseScan(s, i + 1, "int", neg, mant * 10 + DigitVal(s[i]),
                      places, ex, exneg, digits + 1)
       ELSE ParseScan(s, i + 1, "int", neg, mant, places - 1, ex, exneg,
                      digits + 1)
  ELSE IF s[i] = "." /\ at \in {"start", "sign", "int"}
  THEN ParseScan(s, i + 1, "frac", neg, mant, places, ex, exneg, digits)
  ELSE IF IsDigit(s[i]) /\ at = "frac"
  THEN IF mant < 10 ^ 7
       THEN ParseScan(s, i + 1, "frac", neg, mant * 10 + DigitVal(s[i]),
                      places + 1, ex, exneg, digits + 1)
       ELSE ParseScan(s, i + 1, "frac", neg, mant, places, ex, exneg,
                      digits + 1)
  ELSE IF s[i] \in {"e", "E"} /\ at \in {"int", "frac"} /\ digits > 0
  THEN ParseScan(s, i + 1, "e", neg, mant, places, ex, exneg, digits)
  ELSE IF s[i] \in {"-", "+"} /\ at = "e"
  THEN ParseScan(s, i + 1, "esign", neg, mant, places, ex, s[i] = "-", digits)
  ELSE IF IsDigit(s[i]) /\ at \in {"e", "esign", "exp"}
  THEN ParseScan(s, i + 1, "exp", neg, mant, places,
                 IF ex < 1000 THEN ex * 10 + DigitVal(s[i]) ELSE ex, exneg,
                 digits)
  ELSE <<neg, mant, places, IF exneg THEN -ex ELSE ex, digits>>

\* The Number a scan stands for: NaN when no digit was found.
ParsedNumber(r) ==
  IF r[5] = 0 THEN NaN ELSE Norm(IF r[1] THEN -r[2] ELSE r[2], r[4] - r[3])

ParseFloat(s) == ParsedNumber(ParseScan(s, 1, "start", FALSE, 0, 0, 0, FALSE, 0))

(***************************************************************************)
(* The 2D context and the canvas                                           *)
(***************************************************************************)

\* canvas.width and canvas.height: the host page's canvas elements carry no
\* size the scripts set; the HTML default size of a canvas is 300 x 150.
CanvasWidth == 300
CanvasHeight == 150

N(i) == Int2Num(i)
W == N(CanvasWidth)
H == N(CanvasHeight)

\* The drawing state of a fresh CanvasRenderingContext2D that the renderers
\* read or write.
DefaultCtx == [lineWidth |-> 1, strokeStyle |-> "#000000",
               fillStyle |-> "#000000", font |-> "10px sans-serif",
               textAlign |-> "start"]

\* The context attributes that decide how a painting call paints.
AttrsOf(op) ==
  CASE op \in {"stroke", "strokeRect"} -> {"lineWidth", "strokeStyle"}
    [] op \in {"fill", "fillRect"} -> {"fillStyle"}
    [] op = "fillText" -> {"fillStyle", "font", "textAlign"}

\* Calls on the context, in the order a renderer issues them.
Set(a, v) == [c |-> "set", a |-> a, g |-> v]
Call(c, g) == [c |-> c, a |-> "", g |-> g]

\* One call on the context.  st.ctx is the context's drawing state, st.path
\* its current path, st.canvas the painting calls that reached the bitmap
\* since it was last cleared, each with its geometry and the attributes in
\* force when it was issued.
Exec(st, cmd) ==
  CASE cmd.c = "set" -> [st EXCEPT !.ctx[cmd.a] = cmd.g]
    [] cmd.c = "clearRect" -> [st EXCEPT !.canvas = <<>>]
    [] cmd.c = "beginPath" -> [st EXCEPT !.path = <<>>]
    [] cmd.c \in {"moveTo", "lineTo", "closePath", "arc"} ->
         [st EXCEPT !.path = Append(@, <<cmd.c, cmd.g>>)]
    [] cmd.c \in {"stroke", "fill"} ->
         [st EXCEPT !.canvas = Append(@,
            [op |-> cmd.c, g |-> st.path,
             attrs |-> [n \in AttrsOf(cmd.c) |-> st.ctx[n]]])]
    [] cmd.c \in {"fillRect", "strokeRect", "fillText"} ->
         [st EXCEPT !.canvas = Append(@,
            [op |-> cmd.c, g |-> cmd.g,
             attrs |-> [n \in AttrsOf(cmd.c) |-> st.ctx[n]]])]

\* The calls cmds[lo..hi] in order.  The range is halved, and the test on
\* the first half's result makes it a value before the second half starts,
\* which keeps the evaluation shallow.
RECURSIVE RunRange(_, _, _, _)
RunRange(st, cmds, lo, hi) ==
  IF lo > hi THEN st
  ELSE IF lo = hi THEN Exec(st, cmds[lo])
  ELSE LET mid == (lo + hi) \div 2
           half == RunRange(st, cmds, lo, mid)
       IN  IF DOMAIN half = {"ctx", "path", "canvas"}
           THEN RunRange(half, cmds, mid + 1, hi)
           ELSE half

Run(st, cmds) == RunRange(st, cmds, 1, Len(cmds))

RECURSIVE Flatten(_)
Flatten(ss) == IF ss = <<>> THEN <<>> ELSE Head(ss) \o Flatten(Tail(ss))

\* function clearCanvas(ctx, canvas): ctx.clearRect(0, 0, width, height)
clearCanvas(st) == Run(st, <<Call("clearRect", <<Zero, Zero, W, H>>)>>)

\* A blank canvas: nothing painted since the last clear.
Blank(cv) == cv = <<>>

(***************************************************************************)
(* Site/Civil: earthwork volume and rational-method runoff                 *)
(***************************************************************************)

EMDASH == "<U+2014>"

drawSiteVolume(st, A1, A2) ==
  LET maxA == MathMax(MathMax(A1, A2), N(1))
      heightScale == Div(Sub(H, N(20)), maxA)
      baseY == Sub(H, N(10))
      x0 == N(20)
      x1 == Sub(W, N(20))
      y0 == Sub(baseY, Mul(A1, heightScale))
      y1 == Sub(baseY, Mul(A2, heightScale))
  IN  Run(clearCanvas(st),
        << Set("fillStyle", "#6fa8dc"),
           Call("beginPath", <<>>),
           Call("moveTo", <<x0, baseY>>),
           Call("lineTo", <<x0, y0>>),
           Call("lineTo", <<x1, y1>>),
           Call("lineTo", <<x1, baseY>>),
           Call("closePath", <<>>),
           Call("fill", <<>>),
           Set("strokeStyle", "#0a253a"),
           Call("stroke", <<>>),
           Set("fillStyle", "#0a253a"),
           Set("font", "12px Arial"),
           Call("fillText", <<"A1", Sub(x0, N(15)), Sub(y0, N(5))>>),
           Call("fillText", <<"A2", Add(x1, N(5)), Sub(y1, N(5))>>) >>)

\* The handler's result: the text outputs it assigned, the context and
\* canvas it left, and the draw function it called ("none" if it returned
\* before drawing).
Result(text, st, called) == [text |-> text, st |-> st, called |-> called]

updateVolume_sumNotHalved(fields, text, st) ==
  LET A1 == ParseFloat(fields["site-a1"])
      A2 == ParseFloat(fields["site-a2"])
      L == ParseFloat(fields["site-length"])
  IN  IF IsNaN(A1) \/ IsNaN(A2) \/ IsNaN(L) \/ Le(L, Zero)
      THEN Result([text EXCEPT !["site-volume"] = EMDASH],
                  clearCanvas(st), "none")
      ELSE Result([text EXCEPT
                     !["site-volume"] =
                        ToFixed(Mul(Add(A1, A2), L), 2) \o " m^3"],
                  drawSiteVolume(st, A1, A2), "drawSiteVolume")

updateVolume(fields, text, st) ==
  LET A1 == ParseFloat(fields["site-a1"])
      A2 == ParseFloat(fields["site-a2"])
      L == ParseFloat(fields["site-length"])
  IN  IF IsNaN(A1) \/ IsNaN(A2) \/ IsNaN(L) \/ Le(L, Zero)
      THEN Result([text EXCEPT !["site-volume"] = EMDASH],
                  clearCanvas(st), "none")
      ELSE LET method == fields["site-method"]
               Am == Div(Add(A1, A2), N(2))
               volume ==
                 IF method = <<"a", "v", "g">>
                 THEN Mul(Div(Add(A1, A2), N(2)), L)
                 ELSE Mul(Div(L, N(6)), Add(Add(A1, Mul(N(4), Am)), A2))
           IN  Result([text EXCEPT
                         !["site-volume"] = ToFixed(volume, 2) \o " m^3"],
                      drawSiteVolume(st, A1, A2), "drawSiteVolume")

drawRunoffBar(st, Q) ==
  LET maxQ == N(10)
      barWidth == MathMin(Sub(W, N(40)), Mul(Div(Q, maxQ), Sub(W, N(40))))
      top == Sub(Div(H, N(2)), N(15))
  IN  Run(clearCanvas(st),
        << Set("fillStyle", "#8fce00"),
           Call("fillRect", <<N(20), top, barWidth, N(30)>>),
           Set("strokeStyle", "#0a253a"),
           Call("strokeRect", <<N(20), top, Sub(W, N(40)), N(30)>>),
           Set("fillStyle", "#0a253a"),
           Set("font", "12px Arial"),
           Call("fillText", <<ToFixed(Q, 2) \o " m^3/s", N(25),
                              Add(Div(H, N(2)), N(30))>>) >>)

updateRunoff(fields, text, st) ==
  LET C == ParseFloat(fields["runoff-c"])
      I == ParseFloat(fields["runoff-i"])
      A == ParseFloat(fields["runoff-a"])
  IN  IF IsNaN(C) \/ IsNaN(I) \/ IsNaN(A) \/ Lt(C, Zero) \/ Lt(I, Zero)
         \/ Lt(A, Zero)
      THEN Result([text EXCEPT !["runoff-q"] = EMDASH],
                  clearCanvas(st), "none")
      ELSE LET Q == Mul(Mul(Mul(C, I), A), Dec(2778, -6))
           IN  Result([text EXCEPT
                         !["runoff-q"] = ToFixed(Q, 3) \o " m^3/s"],
                      drawRunoffBar(st, Q), "drawRunoffBar")

(***************************************************************************)
(* Geotechnical: Mohr-Coulomb shear strength and bearing capacity          *)
(***************************************************************************)

drawShearDiagram(st, c, phiRad) ==
  LET margin == N(30)
      axisX0 == margin
      axisY0 == Sub(H, margin)
      axisX1 == Sub(W, margin)
      axisY1 == margin
      maxSigma == N(100)
      maxTau == Add(c, Mul(maxSigma, MathTan(phiRad)))
      xCoord(sigma) ==
        Add(axisX0, Mul(Div(sigma, maxSigma), Sub(axisX1, axisX0)))
      yCoord(tau) ==
        Sub(axisY0, Mul(Div(tau, MathMax(maxTau, N(1))), Sub(axisY0, axisY1)))
      ticks == 5
      tick(i) ==
        LET sigmaVal == Mul(Div(maxSigma, N(ticks)), N(i))
            tauVal == Mul(Div(maxTau, N(ticks)), N(i))
            x == xCoord(sigmaVal)
            y == yCoord(tauVal)
        IN  << Call("beginPath", <<>>),
               Call("moveTo", <<x, axisY0>>),
               Call("lineTo", <<x, Sub(axisY0, N(5))>>),
               Call("stroke", <<>>),
               Call("fillText", <<ToFixed(sigmaVal, 0), Sub(x, N(10)),
                                  Add(axisY0, N(12))>>),
               Call("beginPath", <<>>),
               Call("moveTo", <<axisX0, y>>),
               Call("lineTo", <<Add(axisX0, N(5)), y>>),
               Call("stroke", <<>>),
               Call("fillText", <<ToFixed(tauVal, 0), Sub(axisX0, N(25)),
                                  Add(y, N(3))>>) >>
  IN  Run(clearCanvas(st),
        << Set("strokeStyle", "#0a253a"),
           Set("lineWidth", 1),
           Call("beginPath", <<>>),
           Call("moveTo", <<axisX0, axisY0>>),
           Call("lineTo", <<axisX1, axisY0>>),
           Call("stroke", <<>>),
           Call("beginPath", <<>>),
           Call("moveTo", <<axisX0, axisY0>>),
           Call("lineTo", <<axisX0, axisY1>>),
           Call("stroke", <<>>),
           Set("strokeStyle", "#6fa8dc"),
           Call("beginPath", <<>>),
           Call("moveTo", <<xCoord(Zero), yCoord(c)>>),
           Call("lineTo", <<xCoord(maxSigma),
                            yCoord(Add(c, Mul(maxSigma, MathTan(phiRad))))>>),
           Call("stroke", <<>>),
           Set("fillStyle", "#0a253a"),
           Set("font", "10px Arial"),
           Call("fillText", <<"sigma (kPa)", Sub(axisX1, N(40)),
                              Add(axisY0, N(15))>>),
           Call("fillText", <<"tau (kPa)", Sub(axisX0, N(25)),
                              Add(axisY1, N(10))>>) >>
        \o Flatten([i \in 1..(ticks + 1) |-> tick(i - 1)]))

updateShear(fields, text, st) ==
  LET c == ParseFloat(fields["geotech-c"])
      sigma == ParseFloat(fields["geotech-sigma"])
      phi == ParseFloat(fields["geotech-phi"])
  IN  IF IsNaN(c) \/ IsNaN(sigma) \/ IsNaN(phi)
      THEN Result([text EXCEPT !["geotech-tau"] = EMDASH],
                  clearCanvas(st), "none")
      ELSE LET phiRad == Div(Mul(phi, MathPI), N(180))
               tau == Add(c, Mul(sigma, MathTan(phiRad)))
           IN  Result([text EXCEPT
                         !["geotech-tau"] = ToFixed(tau, 2) \o " kPa"],
                      drawShearDiagram(st, c, phiRad), "drawShearDiagram")

drawBearingBar(st, termC, termQ, termGamma) ==
  LET total == Add(Add(termC, termQ), termGamma)
      barWidth == Div(W, N(4))
      hC == Mul(Div(termC, total), Sub(H, N(20)))
      yC == Sub(H, hC)
      hQ == Mul(Div(termQ, total), Sub(H, N(20)))
      yQ == Sub(yC, hQ)
      hG == Mul(Div(termGamma, total), Sub(H, N(20)))
      yG == Sub(yQ, hG)
      labelX == Add(N(25), barWidth)
  IN  IF Le(total, Zero) THEN clearCanvas(st)
      ELSE Run(clearCanvas(st),
        << Set("fillStyle", "#f6b26b"),
           Call("fillRect", <<N(20), yC, barWidth, hC>>),
           Set("fillStyle", "#6fa8dc"),
           Call("fillRect", <<N(20), yQ, barWidth, hQ>>),
           Set("fillStyle", "#93c47d"),
           Call("fillRect", <<N(20), yG, barWidth, hG>>),
           Set("strokeStyle", "#0a253a"),
           Call("strokeRect", <<N(20), N(10), barWidth, Sub(H, N(20))>>),
           Set("fillStyle", "#0a253a"),
           Set("font", "10px Arial"),
           Call("fillText", <<"c'N_c", labelX, Sub(H, Div(hC, N(2)))>>),
           Call("fillText", <<"q'N_q", labelX,
                              Sub(Sub(H, hC), Div(hQ, N(2)))>>),
           Call("fillText", <<"0.5gamma'BN_gamma", labelX,
                              Sub(Sub(Sub(H, hC), hQ), Div(hG, N(2)))>>) >>)

\* A variant of OrEps without the guard: phiRad itself.
OrEps_unguarded(phiRad) == phiRad

\* phiRad || 1e-6: the right operand when phiRad is 0 (or NaN).
OrEps(phiRad) == IF phiRad = Zero \/ IsNaN(phiRad) THEN Dec(1, -6) ELSE phiRad

\* The bearing capacity factors and terms of updateBearing.
BearingNq(phiRad) ==
  Mul(MathExp(Mul(MathPI, MathTan(phiRad))),
      PowInt(MathTan(Add(Div(MathPI, N(4)), Div(phiRad, N(2)))), 2))
BearingNc(phiRad, Nq) == Div(Sub(Nq, N(1)), MathTan(OrEps(phiRad)))
BearingNgamma(phiRad, Nq) == Mul(Mul(N(2), Add(Nq, N(1))), MathTan(phiRad))

updateBearing(fields, text, st) ==
  LET c == ParseFloat(fields["bear-c"])
      q == ParseFloat(fields["bear-q"])
      gamma == ParseFloat(fields["bear-gamma"])
      B == ParseFloat(fields["bear-b"])
      phi == ParseFloat(fields["bear-phi"])
  IN  IF \E x \in {c, q, gamma, B, phi} : IsNaN(x) \/ Le(B, Zero)
      THEN Result([text EXCEPT !["bear-qult"] = EMDASH],
                  clearCanvas(st), "none")
      ELSE LET phiRad == Div(Mul(phi, MathPI), N(180))
               Nq == BearingNq(phiRad)
               Nc == BearingNc(phiRad, Nq)
               Ngamma == BearingNgamma(phiRad, Nq)
               termGamma == Mul(Mul(Mul(Dec(5, -1), gamma), B), Ngamma)
               qult == Add(Add(Mul(c, Nc), Mul(q, Nq)), termGamma)
           IN  Result([text EXCEPT
                         !["bear-qult"] = ToFixed(qult, 2) \o " kPa"],
                      drawBearingBar(st, Mul(c, Nc), Mul(q, Nq), termGamma),
                      "drawBearingBar")

(***************************************************************************)
(* Structural: beam bending and Euler buckling                             *)
(***************************************************************************)

\* The samples of a curve: n + 1 points, the first reached by moveTo and
\* the others by lineTo.
Polyline(n, px(_), py(_)) ==
  [j \in 1..(n + 1) |->
     Call(IF j = 1 THEN "moveTo" ELSE "lineTo", <<px(j - 1), py(j - 1)>>)]

\* The largest of 0 and the values vs[lo..hi]; a NaN never compares
\* greater and is skipped, as in the loops "if (v > max) max = v".
RECURSIVE RangeMax(_, _, _)
RangeMax(vs, lo, hi) ==
  IF lo > hi THEN Zero
  ELSE IF lo = hi THEN (IF Gt(vs[lo], Zero) THEN vs[lo] ELSE Zero)
  ELSE LET mid == (lo + hi) \div 2
           l == RangeMax(vs, lo, mid)
           r == RangeMax(vs, mid + 1, hi)
       IN  IF Gt(r, l) THEN r ELSE l

MathAbs(x) == IF x.k = "nan" THEN NaN ELSE [x EXCEPT !.m = Abs(@)]

drawBeamDeflection(st, w, L, E, I) ==
  LET n == 50
      scaleX == Div(Sub(W, N(20)), L)
      xAt(i) == Mul(Div(L, N(n)), N(i))
      yAt(i) ==
        Div(Mul(Mul(w, xAt(i)),
                Add(Sub(PowInt(L, 3), Mul(Mul(N(2), L), PowInt(xAt(i), 2))),
                    PowInt(xAt(i), 3))),
            Mul(Mul(N(24), E), I))
      ys == [j \in 1..(n + 1) |-> yAt(j - 1)]
      yMax == RangeMax([j \in 1..(n + 1) |-> MathAbs(ys[j])], 1, n + 1)
      scaleY == IF Gt(yMax, Zero) THEN Div(Div(H, N(4)), yMax) ELSE N(1)
      px(i) == Add(N(10), Mul(xAt(i), scaleX))
      py(i) == Sub(Div(H, N(2)), Mul(ys[i + 1], scaleY))
  IN  Run(clearCanvas(st),
        << Set("strokeStyle", "#0a253a"),
           Call("beginPath", <<>>),
           Call("moveTo", <<N(10), Div(H, N(2))>>),
           Call("lineTo", <<Sub(W, N(10)), Div(H, N(2))>>),
           Call("stroke", <<>>),
           Set("strokeStyle", "#6fa8dc"),
           Call("beginPath", <<>>) >>
        \o Polyline(n, px, py)
        \o << Call("stroke", <<>>) >>)

\* [..].some(x => isNaN(x) || x <= 0)
SomeNaNOrNonPositive(xs) == \E x \in xs : IsNaN(x) \/ Le(x, Zero)

updateBeam(fields, text, st) ==
  LET w == ParseFloat(fields["beam-w"])
      L == ParseFloat(fields["beam-l"])
      E == ParseFloat(fields["beam-e"])
      I == ParseFloat(fields["beam-i"])
  IN  IF SomeNaNOrNonPositive({w, L, E, I})
      THEN Result([text EXCEPT !["beam-stress"] = EMDASH,
                               !["beam-deflection"] = EMDASH],
                  clearCanvas(st), "none")
      ELSE LET M == Div(Mul(Mul(w, L), L), N(8))
               stressRatio == Div(Mul(M, N(1000)), I)
               wN == Mul(w, N(1000))
               EPa == Mul(E, Dec(1, 9))
               deflect == Div(Mul(Mul(N(5), wN), PowInt(L, 4)),
                              Mul(Mul(N(384), EPa), I))
           IN  Result([text EXCEPT
                         !["beam-stress"] =
                            "M/I: " \o ToFixed(stressRatio, 2) \o " 1/m^3",
                         !["beam-deflection"] =
                            "delta_max: " \o ToFixed(deflect, 4) \o " m"],
                      drawBeamDeflection(st, wN, L, EPa, I),
                      "drawBeamDeflection")

drawBucklingColumn(st, PcrkN) ==
  LET colX == Sub(Div(W, N(2)), N(20))
      colYTop == N(20)
      colYBot == Sub(H, N(40))
      arrowHeight == MathMin(Mul(Div(PcrkN, N(1000)), N(20)), N(100))
      arrowY == Sub(Sub(colYTop, arrowHeight), N(10))
      arrowX == Add(colX, N(20))
  IN  Run(clearCanvas(st),
        << Set("fillStyle", "#d9d9d9"),
           Call("fillRect", <<colX, colYTop, N(40), Sub(colYBot, colYTop)>>),
           Set("strokeStyle", "#0a253a"),
           Call("strokeRect", <<colX, colYTop, N(40), Sub(colYBot, colYTop)>>),
           Set("strokeStyle", "#6fa8dc"),
           Set("lineWidth", 3),
           Call("beginPath", <<>>),
           Call("moveTo", <<arrowX, colYTop>>),
           Call("lineTo", <<arrowX, arrowY>>),
           Call("stroke", <<>>),
           Call("beginPath", <<>>),
           Call("moveTo", <<Sub(arrowX, N(5)), Add(arrowY, N(10))>>),
           Call("lineTo", <<arrowX, arrowY>>),
           Call("lineTo", <<Add(arrowX, N(5)), Add(arrowY, N(10))>>),
           Call("stroke", <<>>),
           Set("fillStyle", "#0a253a"),
           Set("font", "12px Arial"),
           Call("fillText", <<ToFixed(PcrkN, 1) \o " kN", Add(arrowX, N(10)),
                              Add(arrowY, N(20))>>) >>)

updateBuckling(fields, text, st) ==
  LET E == ParseFloat(fields["buckling-e"])
      I == ParseFloat(fields["buckling-i"])
      L == ParseFloat(fields["buckling-l"])
      K == ParseFloat(fields["buckling-k"])
  IN  IF SomeNaNOrNonPositive({E, I, L, K})
      THEN Result([text EXCEPT !["buckling-pcr"] = EMDASH],
                  clearCanvas(st), "none")
      ELSE LET EPa == Mul(E, Dec(1, 9))
               Pcr == Div(Mul(Mul(Mul(MathPI, MathPI), EPa), I),
                          PowInt(Mul(K, L), 2))
               PcrkN == Div(Pcr, N(1000))
           IN  Result([text EXCEPT
                         !["buckling-pcr"] = ToFixed(PcrkN, 2) \o " kN"],
                      drawBucklingColumn(st, PcrkN), "drawBucklingColumn")

(***************************************************************************)
(* Transportation: fundamental diagram and stopping sight distance         *)
(***************************************************************************)

drawFundamentalDiagram(st, vf, kj) ==
  LET margin == N(30)
      x0 == margin
      y0 == Sub(H, margin)
      x1 == Sub(W, margin)
      y1 == margin
      n == 50
      maxQ == Div(Mul(vf, kj), N(4))
      kAt(i) == Mul(Div(kj, N(n)), N(i))
      qAt(i) == Mul(Mul(vf, kAt(i)), Sub(N(1), Div(kAt(i), kj)))
      px(i) == Add(x0, Mul(Div(kAt(i), kj), Sub(x1, x0)))
      py(i) == Sub(y0, Mul(Div(qAt(i), maxQ), Sub(y0, y1)))
  IN  Run(clearCanvas(st),
        << Set("strokeStyle", "#0a253a"),
           Call("beginPath", <<>>),
           Call("moveTo", <<x0, y0>>),
           Call("lineTo", <<x1, y0>>),
           Call("moveTo", <<x0, y0>>),
           Call("lineTo", <<x0, y1>>),
           Call("stroke", <<>>),
           Set("strokeStyle", "#6fa8dc"),
           Call("beginPath", <<>>) >>
        \o Polyline(n, px, py)
        \o << Call("stroke", <<>>),
              Set("fillStyle", "#0a253a"),
              Set("font", "10px Arial"),
              Call("fillText", <<"Density (k)", Sub(x1, N(50)),
                                 Add(y0, N(15))>>),
              Call("fillText", <<"Flow (q)", Sub(x0, N(25)), y1>>) >>)

\* A variant of updateFlow that does not test isNaN(kj).
updateFlow_unchecked(fields, text, st) ==
  LET vf == ParseFloat(fields["flow-vf"])
      kj == ParseFloat(fields["flow-kj"])
  IN  IF IsNaN(vf) \/ Le(vf, Zero) \/ Le(kj, Zero)
      THEN Result(text, clearCanvas(st), "none")
      ELSE Result(text, drawFundamentalDiagram(st, vf, kj),
                  "drawFundamentalDiagram")

\* The fundamental diagram has no text output.
updateFlow(fields, text, st) ==
  LET vf == ParseFloat(fields["flow-vf"])
      kj == ParseFloat(fields["flow-kj"])
  IN  IF IsNaN(vf) \/ IsNaN(kj) \/ Le(vf, Zero) \/ Le(kj, Zero)
      THEN Result(text, clearCanvas(st), "none")
      ELSE Result(text, drawFundamentalDiagram(st, vf, kj),
                  "drawFundamentalDiagram")

drawStoppingDistance(st, ds) ==
  LET margin == N(20)
      trackLength == Sub(W, Mul(N(2), margin))
      maxDS == N(200)
      carX == margin
      barLength == MathMin(trackLength, Mul(Div(ds, maxDS), trackLength))
      mid == Div(H, N(2))
      arrowX == Add(carX, barLength)
  IN  Run(clearCanvas(st),
        << Set("fillStyle", "#d9d9d9"),
           Call("fillRect", <<margin, Sub(mid, N(10)), trackLength, N(20)>>),
           Set("fillStyle", "#6fa8dc"),
           Call("fillRect", <<carX, Sub(mid, N(10)), barLength, N(20)>>),
           Set("fillStyle", "#f6b26b"),
           Call("fillRect", <<Sub(carX, N(10)), Sub(mid, N(15)), N(20),
                              N(15)>>),
           Set("fillStyle", "#6fa8dc"),
           Call("beginPath", <<>>),
           Call("moveTo", <<arrowX, mid>>),
           Call("lineTo", <<Sub(arrowX, N(8)), Sub(mid, N(5))>>),
           Call("lineTo", <<Sub(arrowX, N(8)), Add(mid, N(5))>>),
           Call("closePath", <<>>),
           Call("fill", <<>>),
           Set("fillStyle", "#0a253a"),
           Set("font", "12px Arial"),
           Call("fillText", <<ToFixed(ds, 1) \o " m", margin,
                              Add(mid, N(35))>>) >>)

\* A variant of updateSSD that treats denom <= 0 like an unparsed field.
updateSSD_placeholder(fields, text, st) ==
  LET v == ParseFloat(fields["ssd-v"])
      tr == ParseFloat(fields["ssd-tr"])
      f == ParseFloat(fields["ssd-f"])
      G == ParseFloat(fields["ssd-g"])
      v_ms == Mul(Dec(278, -3), v)
      denom == Mul(Dec(196, -1), Add(f, G))
      ds == Add(Mul(Mul(Dec(278, -3), tr), v), Div(Mul(v_ms, v_ms), denom))
  IN  IF (\E x \in {v, tr, f, G} : IsNaN(x) \/ Le(v, Zero) \/ Le(tr, Zero))
         \/ Le(denom, Zero)
      THEN Result([text EXCEPT !["ssd-distance"] = EMDASH],
                  clearCanvas(st), "none")
      ELSE Result([text EXCEPT !["ssd-distance"] = ToFixed(ds, 1) \o " m"],
                  drawStoppingDistance(st, ds), "drawStoppingDistance")

updateSSD(fields, text, st) ==
  LET v == ParseFloat(fields["ssd-v"])
      tr == ParseFloat(fields["ssd-tr"])
      f == ParseFloat(fields["ssd-f"])
      G == ParseFloat(fields["ssd-g"])
      v_ms == Mul(Dec(278, -3), v)
      denom == Mul(Dec(196, -1), Add(f, G))
      ds == Add(Mul(Mul(Dec(278, -3), tr), v), Div(Mul(v_ms, v_ms), denom))
  IN  IF \E x \in {v, tr, f, G} : IsNaN(x) \/ Le(v, Zero) \/ Le(tr, Zero)
      THEN Result([text EXCEPT !["ssd-distance"] = EMDASH],
                  clearCanvas(st), "none")
      ELSE IF Le(denom, Zero)
      THEN Result([text EXCEPT !["ssd-distance"] = "Invalid parameters"],
                  clearCanvas(st), "none")
      ELSE Result([text EXCEPT !["ssd-distance"] = ToFixed(ds, 1) \o " m"],
                  drawStoppingDistance(st, ds), "drawStoppingDistance")

(***************************************************************************)
(* Environmental: Streeter-Phelps DO sag                                   *)
(***************************************************************************)

\* The deficit D(t) of drawDOSag's loop body.
DOSagD(k1, k2, La, Da, t) ==
  Add(Mul(Div(Mul(k1, La), Sub(k2, k1)),
          Sub(MathExp(Mul(Neg(k1), t)), MathExp(Mul(Neg(k2), t)))),
      Mul(Da, MathExp(Mul(Neg(k2), t))))

drawDOSag(st, k1, k2, La, Da) ==
  LET n == 50
      tMax == N(10)
      tAt(i) == Mul(Div(tMax, N(n)), N(i))
      values == [j \in 1..(n + 1) |-> DOSagD(k1, k2, La, Da, tAt(j - 1))]
      maxD == RangeMax(values, 1, n + 1)
      margin == N(30)
      x0 == margin
      y0 == Sub(H, margin)
      x1 == Sub(W, margin)
      y1 == margin
      px(i) == Add(x0, Mul(Div(tAt(i), tMax), Sub(x1, x0)))
      py(i) == Sub(y0, Mul(Div(values[i + 1], MathMax(maxD, Dec(1, -6))),
                           Sub(y0, y1)))
  IN  Run(clearCanvas(st),
        << Set("strokeStyle", "#0a253a"),
           Call("beginPath", <<>>),
           Call("moveTo", <<x0, y0>>),
           Call("lineTo", <<x1, y0>>),
           Call("moveTo", <<x0, y0>>),
           Call("lineTo", <<x0, y1>>),
           Call("stroke", <<>>),
           Set("strokeStyle", "#6fa8dc"),
           Call("beginPath", <<>>) >>
        \o Polyline(n, px, py)
        \o << Call("stroke", <<>>),
              Set("fillStyle", "#0a253a"),
              Set("font", "10px Arial"),
              Call("fillText", <<"Time (days)", Sub(x1, N(50)),
                                 Add(y0, N(15))>>),
              Call("fillText", <<"DO deficit", Sub(x0, N(25)), y1>>) >>)

\* A variant of updateDO without the test k1 === k2.
updateDO_unequalNotTested(fields, text, st) ==
  LET k1 == ParseFloat(fields["do-k1"])
      k2 == ParseFloat(fields["do-k2"])
      La == ParseFloat(fields["do-la"])
      Da == ParseFloat(fields["do-da"])
  IN  IF \E x \in {k1, k2, La, Da} : IsNaN(x) \/ Lt(x, Zero)
      THEN Result(text, clearCanvas(st), "none")
      ELSE Result(text, drawDOSag(st, k1, k2, La, Da), "drawDOSag")

\* The DO sag calculator has no text output.
updateDO(fields, text, st) ==
  LET k1 == ParseFloat(fields["do-k1"])
      k2 == ParseFloat(fields["do-k2"])
      La == ParseFloat(fields["do-la"])
      Da == ParseFloat(fields["do-da"])
  IN  IF (\E x \in {k1, k2, La, Da} : IsNaN(x) \/ Lt(x, Zero)) \/ k1 = k2
      THEN Result(text, clearCanvas(st), "none")
      ELSE Result(text, drawDOSag(st, k1, k2, La, Da), "drawDOSag")

(***************************************************************************)
(* Hydraulics: Manning's equation                                          *)
(***************************************************************************)

drawManningChannel(st, b, d, Q) ==
  LET margin == N(20)
      maxDim == MathMax(b, d)
      scale == Div(Sub(H, Mul(N(2), margin)), Mul(maxDim, Dec(15, -1)))
      width == Mul(b, scale)
      depth == Mul(d, scale)
      startX == Div(Sub(W, width), N(2))
      waterY == Sub(H, margin)
      arrowLength == MathMin(Mul(width, Dec(8, -1)),
                             Mul(Div(Q, N(10)), Mul(width, Dec(8, -1))))
      arrowY == Sub(waterY, Div(depth, N(2)))
      tailX == Add(startX, Mul(width, Dec(1, -1)))
      tipX == Add(tailX, arrowLength)
  IN  Run(clearCanvas(st),
        << Set("strokeStyle", "#0a253a"),
           Set("fillStyle", "#ffffff"),
           Call("strokeRect", <<startX, Sub(waterY, depth), width, depth>>),
           Set("fillStyle", "#6fa8dc"),
           Call("fillRect", <<startX, Sub(waterY, depth), width, depth>>),
           Call("strokeRect", <<startX, Sub(waterY, depth), width, depth>>),
           Set("strokeStyle", "#f6b26b"),
           Set("lineWidth", 3),
           Call("beginPath", <<>>),
           Call("moveTo", <<tailX, arrowY>>),
           Call("lineTo", <<tipX, arrowY>>),
           Call("stroke", <<>>),
           Call("beginPath", <<>>),
           Call("moveTo", <<tipX, arrowY>>),
           Call("lineTo", <<Sub(tipX, N(5)), Sub(arrowY, N(5))>>),
           Call("lineTo", <<Sub(tipX, N(5)), Add(arrowY, N(5))>>),
           Call("closePath", <<>>),
           Set("fillStyle", "#f6b26b"),
           Call("fill", <<>>),
           Set("fillStyle", "#0a253a"),
           Set("font", "12px Arial"),
           Call("fillText", <<ToFixed(Q, 2) \o " m^3/s", Add(startX, N(5)),
                              Sub(Sub(waterY, depth), N(5))>>) >>)

updateManning(fields, text, st) ==
  LET b == ParseFloat(fields["manning-b"])
      d == ParseFloat(fields["manning-d"])
      S == ParseFloat(fields["manning-s"])
      n == ParseFloat(fields["manning-n"])
  IN  IF SomeNaNOrNonPositive({b, d, S, n})
      THEN Result([text EXCEPT !["manning-q"] = EMDASH],
                  clearCanvas(st), "none")
      ELSE LET A == Mul(b, d)
               P == Add(b, Mul(N(2), d))
               Rh == Div(A, P)
               Q == Mul(Mul(Mul(Div(N(1), n), A), PowTwoThirds(Rh)),
                        MathSqrt(S))
           IN  Result([text EXCEPT
                         !["manning-q"] = ToFixed(Q, 3) \o " m^3/s"],
                      drawManningChannel(st, b, d, Q), "drawManningChannel")

(***************************************************************************)
(* Construction: earned value management                                   *)
(***************************************************************************)

\* The inner function drawGauge(cx, value, label) of drawEVMGauges.
drawGauge(cx, cy, radius, value, label) ==
  LET endAngle == Add(MathPI, Mul(MathMin(Div(value, N(2)), N(1)), MathPI))
      needleAngle == Add(MathPI, Mul(MathMin(Div(value, N(2)), N(1)), MathPI))
      nx == Add(cx, Mul(radius, MathCos(needleAngle)))
      ny == Add(cy, Mul(radius, MathSin(needleAngle)))
  IN  << Set("lineWidth", 6),
         Set("strokeStyle", "#ddd"),
         Call("beginPath", <<>>),
         Call("arc", <<cx, cy, radius, MathPI, Mul(N(2), MathPI)>>),
         Call("stroke", <<>>),
         Set("strokeStyle", "#6fa8dc"),
         Call("beginPath", <<>>),
         Call("arc", <<cx, cy, radius, MathPI, endAngle>>),
         Call("stroke", <<>>),
         Set("strokeStyle", "#f6b26b"),
         Call("beginPath", <<>>),
         Call("moveTo", <<cx, cy>>),
         Call("lineTo", <<nx, ny>>),
         Call("stroke", <<>>),
         Set("fillStyle", "#0a253a"),
         Call("beginPath", <<>>),
         Call("arc", <<cx, cy, N(4), Zero, Mul(N(2), MathPI)>>),
         Call("fill", <<>>),
         Set("fillStyle", "#0a253a"),
         Set("font", "10px Arial"),
         Set("textAlign", "center"),
         Call("fillText", <<label, cx, Add(cy, N(15))>>),
         Call("fillText", <<ToFixed(value, 2), cx, Add(cy, N(30))>>) >>

drawEVMGauges(st, SPI, CPI) ==
  LET cx1 == Div(W, N(3))
      cx2 == Mul(Div(W, N(3)), N(2))
      cy == Sub(H, N(10))
      radius == MathMin(Div(W, N(4)), Sub(H, N(20)))
  IN  Run(clearCanvas(st),
          drawGauge(cx1, cy, radius, SPI, "SPI")
          \o drawGauge(cx2, cy, radius, CPI, "CPI"))

updateEVM(fields, text, st) ==
  LET EV == ParseFloat(fields["evm-ev"])
      PV == ParseFloat(fields["evm-pv"])
      AC == ParseFloat(fields["evm-ac"])
      BAC == ParseFloat(fields["evm-bac"])
  IN  IF SomeNaNOrNonPositive({EV, PV, AC, BAC})
      THEN Result([text EXCEPT !["evm-spi"] = "SPI: " \o EMDASH,
                               !["evm-cpi"] = "CPI: " \o EMDASH,
                               !["evm-eac"] = "EAC: " \o EMDASH],
                  clearCanvas(st), "none")
      ELSE LET SPI == Div(EV, PV)
               CPI == Div(EV, AC)
               EAC == Div(BAC, CPI)
           IN  Result([text EXCEPT !["evm-spi"] = "SPI: " \o ToFixed(SPI, 2),
                                   !["evm-cpi"] = "CPI: " \o ToFixed(CPI, 2),
                                   !["evm-eac"] = "EAC: " \o ToFixed(EAC, 2)],
                      drawEVMGauges(st, SPI, CPI), "drawEVMGauges")

(***************************************************************************)
(* The calculators as a state machine                                      *)
(***************************************************************************)

VARIABLES
  calc,      \* the calculator this session edits
  fields,    \* value of each element bound to calc's handler (characters)
  text,      \* textContent of each output element of calc
  ctx,       \* drawing state of calc's 2D context
  canvas,    \* painting calls on calc's canvas since it was last cleared
  drawCall,  \* the draw function the last handler run called, or "none"
  handled,   \* whether a listener has handled an input event yet
  phase,     \* service worker: its lifecycle state
  caches,    \* service worker: the origin's Cache Storage
  names,     \* service worker: what caches.keys() gave the activate handler
  inflight,  \* service worker: fetch events whose response is pending
  event,     \* service worker: the event or callback the last step ran
  effects    \* service worker: API calls made by the last step, with results

appVars == <<calc, fields, text, ctx, canvas, drawCall, handled>>
swVars == <<phase, caches, names, inflight, event, effects>>
vars == <<calc, fields, text, ctx, canvas, drawCall, handled,
          phase, caches, names, inflight, event, effects>>

\* The calculators: each init function binds one or two of them, every one
\* with its own elements, handler, canvas and context, sharing nothing.
Calcs == {"volume", "runoff", "shear", "bearing", "beam", "buckling",
          "flow", "ssd", "do", "manning", "evm"}

\* The numeric fields parsed by each handler (document.getElementById ids).
NumericFields(c) ==
  CASE c = "volume" -> {"site-a1", "site-a2", "site-length"}
    [] c = "runoff" -> {"runoff-c", "runoff-i", "runoff-a"}
    [] c = "shear" -> {"geotech-c", "geotech-sigma", "geotech-phi"}
    [] c = "bearing" -> {"bear-c", "bear-q", "bear-gamma", "bear-b",
                         "bear-phi"}
    [] c = "beam" -> {"beam-w", "beam-l", "beam-e", "beam-i"}
    [] c = "buckling" -> {"buckling-e", "buckling-i", "buckling-l",
                          "buckling-k"}
    [] c = "flow" -> {"flow-vf", "flow-kj"}
    [] c = "ssd" -> {"ssd-v", "ssd-tr", "ssd-f", "ssd-g"}
    [] c = "do" -> {"do-k1", "do-k2", "do-la", "do-da"}
    [] c = "manning" -> {"manning-b", "manning-d", "manning-s", "manning-n"}
    [] c = "evm" -> {"evm-ev", "evm-pv", "evm-ac", "evm-bac"}

\* The elements whose input event runs the handler.
BoundFields(c) ==
  IF c = "volume" THEN NumericFields(c) \cup {"site-method"}
  ELSE NumericFields(c)

\* The output elements each handler writes.
Outputs(c) ==
  CASE c = "volume" -> {"site-volume"}
    [] c = "runoff" -> {"runoff-q"}
    [] c = "shear" -> {"geotech-tau"}
    [] c = "bearing" -> {"bear-qult"}
    [] c = "beam" -> {"beam-stress", "beam-deflection"}
    [] c = "buckling" -> {"buckling-pcr"}
    [] c = "flow" -> {}
    [] c = "ssd" -> {"ssd-distance"}
    [] c = "do" -> {}
    [] c = "manning" -> {"manning-q"}
    [] c = "evm" -> {"evm-spi", "evm-cpi", "evm-eac"}

\* Values a user gives a field, as the characters of the element's value.
\* Every numeric field can be empty (parseFloat gives NaN); the other values
\* put each calculator on both sides of each of its validity conditions and
\* include the documented scenarios.
Empty == <<>>
Two == <<"2">>
Nought == <<"0">>
MinusOne == <<"-", "1">>
Pool(f) ==
  CASE f = "site-method" ->
         \* the select offers 'avg' and one other, prismoidal, value
         { <<"a", "v", "g">>, <<"p", "r", "i", "s", "m">> }
    [] f = "site-a1" -> { Empty, <<"1", "0">>, MinusOne, <<"7">> }
    [] f = "site-a2" -> { Empty, <<"2", "0">>, Nought, <<"0", ".", "0", "1">> }
    [] f = "site-length" -> { Empty, <<"5">>, Nought }
    [] f = "runoff-c" -> { Empty, <<"0", ".", "8">>, MinusOne }
    [] f = "runoff-i" -> { Empty, <<"5", "0">>, Nought }
    [] f = "runoff-a" -> { Empty, Two, <<"9", "0", "0">> }
    [] f = "geotech-c" -> { Empty, Two, MinusOne }
    [] f = "geotech-sigma" -> { Empty, Two, Nought }
    [] f = "geotech-phi" -> { Empty, <<"3", "0">>, Nought }
    [] f = "bear-c" -> { Empty, Two, Nought }
    [] f = "bear-q" -> { Empty, Two, MinusOne }
    [] f = "bear-gamma" -> { Empty, Two }
    [] f = "bear-b" -> { Empty, Two, Nought }
    [] f = "bear-phi" -> { Empty, <<"3", "0">>, Nought }
    [] f = "beam-w" -> { Empty, Two, Nought }
    [] f = "beam-l" -> { Empty, Two, MinusOne }
    [] f = "beam-e" -> { Empty, Two }
    [] f = "beam-i" -> { Empty, Two }
    [] f = "buckling-e" -> { Empty, Two, Nought }
    [] f = "buckling-i" -> { Empty, Two,
                             <<"0", ".", "0", "0", "0", "0", "0", "1">> }
    [] f = "buckling-l" -> { Empty, Two, MinusOne }
    [] f = "buckling-k" -> { Empty, Two }
    [] f = "flow-vf" -> { Empty, Two, Nought, MinusOne }
    [] f = "flow-kj" -> { Empty, Two, Nought, MinusOne }
    [] f = "ssd-v" -> { Empty, <<"1", "0", "0">>, Nought }
    [] f = "ssd-tr" -> { Empty, <<"2", ".", "5">>, MinusOne }
    [] f = "ssd-f" -> { Empty, <<"0", ".", "3", "5">>, Nought }
    [] f = "ssd-g" -> { Empty, Nought, MinusOne }
    [] f = "do-k1" -> { Empty, Two, <<"1">> }
    [] f = "do-k2" -> { Empty, <<"2", ".", "0">>, <<"1">> }
    [] f = "do-la" -> { Empty, Two, MinusOne }
    [] f = "do-da" -> { Empty, Two, Nought }
    [] f = "manning-b" -> { Empty, Two, Nought }
    [] f = "manning-d" -> { Empty, <<"1">>, MinusOne }
    [] f = "manning-s" -> { Empty, <<"0", ".", "0", "0", "1">> }
    [] f = "manning-n" -> { Empty, <<"0", ".", "0", "1", "3">> }
    [] f = "evm-ev" -> { Empty, <<"8", "0">>, Nought }
    [] f = "evm-pv" -> { Empty, <<"1", "0", "0">> }
    [] f = "evm-ac" -> { Empty, <<"9", "0", "x">>, MinusOne }
    [] f = "evm-bac" -> { Empty, <<"5", "0", "0">> }

\* Text of an output element before any handler has written it.
MarkupText == ""

\* The handler bound to calculator c.
Handler(c, fs, tx, st) ==
  CASE c = "volume" -> updateVolume(fs, tx, st)
    [] c = "runoff" -> updateRunoff(fs, tx, st)
    [] c = "shear" -> updateShear(fs, tx, st)
    [] c = "bearing" -> updateBearing(fs, tx, st)
    [] c = "beam" -> updateBeam(fs, tx, st)
    [] c = "buckling" -> updateBuckling(fs, tx, st)
    [] c = "flow" -> updateFlow(fs, tx, st)
    [] c = "ssd" -> updateSSD(fs, tx, st)
    [] c = "do" -> updateDO(fs, tx, st)
    [] c = "manning" -> updateManning(fs, tx, st)
    [] c = "evm" -> updateEVM(fs, tx, st)

\* The service worker's state while only the page is looked at: not
\* registered, the origin without caches.
SWIdle ==
  /\ phase = "parsed"
  /\ caches = <<>>
  /\ names = {}
  /\ inflight = <<>>
  /\ event = [type |-> "none"]
  /\ effects = <<>>

\* DOMContentLoaded: every init function looks up its elements and adds the
\* input listeners; no handler runs, the canvases are blank and the fields
\* and outputs hold what the markup gives them.
InitApp ==
  /\ calc \in Calcs
  /\ fields \in [BoundFields(calc) -> UNION {Pool(f) : f \in BoundFields(calc)}]
  /\ \A f \in BoundFields(calc) : fields[f] \in Pool(f)
  /\ text = [o \in Outputs(calc) |-> MarkupText]
  /\ ctx = DefaultCtx
  /\ canvas = <<>>
  /\ drawCall = "none"
  /\ handled = FALSE

Init == InitApp /\ SWIdle

\* The context and canvas as a handler finds them; the current path of the
\* context is not carried over, every renderer beginning a new path before
\* it adds to one.
Context == [ctx |-> ctx, path |-> <<>>, canvas |-> canvas]

\* An input event on element f, whose value has become v: the listener has
\* run the calculator's handler to its end, with result r.
InputEvent(f, v, r) ==
  /\ fields' = [fields EXCEPT ![f] = v]
  /\ text' = r.text
  /\ ctx' = r.st.ctx
  /\ canvas' = r.st.canvas
  /\ drawCall' = r.called
  /\ handled' = TRUE
  /\ UNCHANGED <<calc, phase, caches, names, inflight, event, effects>>

\* One action per handler: an input event on any of its bound elements.
UpdateVolume ==
  /\ calc = "volume"
  /\ \E f \in BoundFields("volume") : \E v \in Pool(f) :
        /\ v # fields[f]
        /\ InputEvent(f, v, updateVolume([fields EXCEPT ![f] = v], text, Context))

UpdateRunoff ==
  /\ calc = "runoff"
  /\ \E f \in BoundFields("runoff") : \E v \in Pool(f) :
        /\ v # fields[f]
        /\ InputEvent(f, v, updateRunoff([fields EXCEPT ![f] = v], text, Context))

UpdateShear ==
  /\ calc = "shear"
  /\ \E f \in BoundFields("shear") : \E v \in Pool(f) :
        /\ v # fields[f]
        /\ InputEvent(f, v, updateShear([fields EXCEPT ![f] = v], text, Context))

UpdateBearing ==
  /\ calc = "bearing"
  /\ \E f \in BoundFields("bearing") : \E v \in Pool(f) :
        /\ v # fields[f]
        /\ InputEvent(f, v, updateBearing([fields EXCEPT ![f] = v], text, Context))

UpdateBeam ==
  /\ calc = "beam"
  /\ \E f \in BoundFields("beam") : \E v \in Pool(f) :
        /\ v # fields[f]
        /\ InputEvent(f, v, updateBeam([fields EXCEPT ![f] = v], text, Context))

UpdateBuckling ==
  /\ calc = "buckling"
  /\ \E f \in BoundFields("buckling") : \E v \in Pool(f) :
        /\ v # fields[f]
        /\ InputEvent(f, v, updateBuckling([fields EXCEPT ![f] = v], text, Context))

UpdateFlow ==
  /\ calc = "flow"
  /\ \E f \in BoundFields("flow") : \E v \in Pool(f) :
        /\ v # fields[f]
        /\ InputEvent(f, v, updateFlow([fields EXCEPT ![f] = v], text, Context))

UpdateSSD ==
  /\ calc = "ssd"
  /\ \E f \in BoundFields("ssd") : \E v \in Pool(f) :
        /\ v # fields[f]
        /\ InputEvent(f, v, updateSSD([fields EXCEPT ![f] = v], text, Context))

UpdateDO ==
  /\ calc = "do"
  /\ \E f \in BoundFields("do") : \E v \in Pool(f) :
        /\ v # fields[f]
        /\ InputEvent(f, v, updateDO([fields EXCEPT ![f] = v], text, Context))

UpdateManning ==
  /\ calc = "manning"
  /\ \E f \in BoundFields("manning") : \E v \in Pool(f) :
        /\ v # fields[f]
        /\ InputEvent(f, v, updateManning([fields EXCEPT ![f] = v], text, Context))

UpdateEVM ==
  /\ calc = "evm"
  /\ \E f \in BoundFields("evm") : \E v \in Pool(f) :
        /\ v # fields[f]
        /\ InputEvent(f, v, updateEVM([fields EXCEPT ![f] = v], text, Context))

Next ==
  \/ UpdateVolume
  \/ UpdateRunoff
  \/ UpdateShear
  \/ UpdateBearing
  \/ UpdateBeam
  \/ UpdateBuckling
  \/ UpdateFlow
  \/ UpdateSSD
  \/ UpdateDO
  \/ UpdateManning
  \/ UpdateEVM

Spec == Init /\ [][Next]_vars

(***************************************************************************)
(* The service worker                                                      *)
(***************************************************************************)

CACHE_NAME == "civil-calculator-v1"
PRECACHE == {"/", "/index.html", "/style.css", "/app.js", "/manifest.json",
             "/icon.png"}

\* Bounds: fetch events whose response is pending at one time, and the
\* versions of a resource the network serves over time.
MaxInflight == 2
MaxVersion == 2
Versions == 1..MaxVersion

\* A response: the resource and the version of its body.  A clone of a
\* response has the same content.
Response(url, body) == [url |-> url, body |-> body]
Clone(response) == [url |-> response.url, body |-> response.body]
\* What a promise resolves to when nothing is returned or nothing matches.
Undefined == [undefined |-> TRUE]

\* Caches other code left in the origin before this worker is installed,
\* each holding an earlier copy of the root document.
OldCacheNames == {"civil-calculator-v0", "tiles"}
OldContent == ("/index.html" :> Response("/index.html", 0))
InitialStorages ==
  { [n \in ns |-> OldContent] : ns \in SUBSET OldCacheNames }

\* The requests of the fetch events: navigations, a script's fetch with and
\* without an Accept header, and requests that are not GET.
HtmlAccept == "text/html,application/xhtml+xml"
AnyAccept == "*/*"
NoAccept == "null"
Request(method, url, accept) ==
  [method |-> method, url |-> url, accept |-> accept]
Requests ==
  { Request("GET", "/index.html", HtmlAccept),
    Request("GET", "/about", HtmlAccept),
    Request("GET", "/api/data", AnyAccept),
    Request("GET", "/api/data", NoAccept),
    Request("POST", "/api/data", AnyAccept),
    Request("POST", "/about", HtmlAccept) }

IsGet_methodNotTested(request) == TRUE

\* request.method !== 'GET' is false
IsGet(request) == request.method = "GET"

\* request.headers.get('Accept').includes('text/html'), for a header present
IncludesTextHtml(accept) == accept = HtmlAccept

\* caches.match(url): the responses stored for url in any cache of the
\* origin; the promise resolves to one of them, or to undefined.
Matches(storage, url) ==
  { storage[n][url] : n \in { m \in DOMAIN storage : url \in DOMAIN storage[m] } }
MatchResults(storage, url) ==
  IF Matches(storage, url) = {} THEN {Undefined} ELSE Matches(storage, url)

\* caches.open(name): the storage with the cache created if it was absent.
Opened(storage, name) ==
  IF name \in DOMAIN storage THEN storage ELSE (name :> <<>>) @@ storage

Stored_notWritten(storage, name, url, response) == storage

\* cache.put(url, response) on the cache called name.
Stored(storage, name, url, response) ==
  [storage EXCEPT ![name] = (url :> response) @@ @]

AddedAll_nothing(storage, name, urls, body) == storage

\* cache.addAll(urls) with every url fetched at version body.
AddedAll(storage, name, urls, body) ==
  [storage EXCEPT
     ![name] = [u \in urls \cup DOMAIN @ |->
                  IF u \in urls THEN Response(u, body) ELSE @[u]]]

\* caches.delete(name)
Deleted(storage, name) == [n \in DOMAIN storage \ {name} |-> storage[n]]

ToDelete_everyName(ns) == ns

\* The names the activate handler deletes.
ToDelete(ns) == { name \in ns : name # CACHE_NAME }

\* A sequence without its i-th element.
Without(seq, i) == SubSeq(seq, 1, i - 1) \o SubSeq(seq, i + 1, Len(seq))

\* The page's state while only the service worker is looked at.
AppIdle ==
  /\ calc = "flow"
  /\ fields = [f \in BoundFields("flow") |-> Empty]
  /\ text = [o \in Outputs("flow") |-> MarkupText]
  /\ ctx = DefaultCtx
  /\ canvas = <<>>
  /\ drawCall = "none"
  /\ handled = FALSE

\* The worker script has been evaluated and its listeners are registered.
InitSW ==
  /\ AppIdle
  /\ phase = "parsed"
  /\ caches \in InitialStorages
  /\ names = {}
  /\ inflight = <<>>
  /\ event = [type |-> "none"]
  /\ effects = <<>>

\* install: caches.open(CACHE_NAME) and cache.addAll(PRECACHE), every
\* resource fetched; the worker is installed.
InstallSucceeds ==
  /\ phase = "parsed"
  /\ \E body \in Versions :
        caches' = AddedAll(Opened(caches, CACHE_NAME), CACHE_NAME, PRECACHE,
                           body)
  /\ phase' = "installed"
  /\ event' = [type |-> "install"]
  /\ effects' = << [op |-> "open", name |-> CACHE_NAME], [op |-> "addAll"] >>
  /\ UNCHANGED <<names, inflight, appVars>>

\* install with a resource that cannot be fetched: addAll rejects, nothing
\* is added, waitUntil's promise rejects and the worker is discarded.
InstallFails ==
  /\ phase = "parsed"
  /\ caches' = Opened(caches, CACHE_NAME)
  /\ phase' = "redundant"
  /\ event' = [type |-> "install"]
  /\ effects' = << [op |-> "open", name |-> CACHE_NAME] >>
  /\ UNCHANGED <<names, inflight, appVars>>

\* activate: caches.keys() has resolved to names, and caches.delete is
\* called for every name that is not CACHE_NAME.
ActivateStart ==
  /\ phase = "installed"
  /\ names' = DOMAIN caches
  /\ phase' = "activating"
  /\ event' = [type |-> "activate"]
  /\ effects' = << [op |-> "keys"] >>
  /\ UNCHANGED <<caches, inflight, appVars>>

\* One of the deletions of the activate handler takes effect.
ActivateDelete ==
  /\ phase = "activating"
  /\ \E name \in ToDelete(names) \cap DOMAIN caches :
        /\ caches' = Deleted(caches, name)
        /\ event' = [type |-> "delete", name |-> name]
        /\ effects' = << [op |-> "delete", name |-> name] >>
  /\ UNCHANGED <<phase, names, inflight, appVars>>

\* Promise.all has resolved: the worker is activated and receives fetch
\* events.
ActivateDone ==
  /\ phase = "activating"
  /\ ToDelete(names) \cap DOMAIN caches = {}
  /\ phase' = "activated"
  /\ event' = [type |-> "activated"]
  /\ effects' = <<>>
  /\ UNCHANGED <<caches, names, inflight, appVars>>

\* fetch: a request that is not GET returns at once; for a GET the handler
\* calls respondWith and caches.match(request), responds with a match, and
\* without one calls fetch(request).
FetchEvent ==
  /\ phase = "activated"
  /\ \E request \in Requests :
        /\ event' = [type |-> "fetch", request |-> request]
        /\ IF ~IsGet(request)
           THEN /\ effects' = <<>>
                /\ UNCHANGED inflight
           ELSE \E cached \in MatchResults(caches, request.url) :
                  IF cached # Undefined
                  THEN /\ effects' = << [op |-> "respondWith"],
                                        [op |-> "match", url |-> request.url],
                                        [op |-> "respond", with |-> cached] >>
                       /\ UNCHANGED inflight
                  ELSE /\ Len(inflight) < MaxInflight
                       /\ effects' = << [op |-> "respondWith"],
                                        [op |-> "match", url |-> request.url],
                                        [op |-> "fetch", url |-> request.url] >>
                       /\ inflight' = Append(inflight,
                                        [request |-> request,
                                         stage |-> "fetching",
                                         response |-> Undefined])
  /\ UNCHANGED <<phase, caches, names, appVars>>

\* fetch(request) has resolved: caches.open(CACHE_NAME), cache.put(request,
\* response.clone()) is called and not awaited, the response is returned.
NetworkResponds ==
  /\ \E i \in DOMAIN inflight : \E body \in Versions :
        /\ inflight[i].stage = "fetching"
        /\ LET request == inflight[i].request
               response == Response(request.url, body)
           IN  /\ caches' = Opened(caches, CACHE_NAME)
               /\ inflight' = [inflight EXCEPT ![i].stage = "putting",
                                               ![i].response = Clone(response)]
               /\ event' = [type |-> "then", request |-> request]
               /\ effects' = << [op |-> "open", name |-> CACHE_NAME],
                                [op |-> "put", url |-> request.url,
                                 response |-> Clone(response)],
                                [op |-> "respond", with |-> response] >>
  /\ UNCHANGED <<phase, names, appVars>>

\* A cache.put that was called takes effect.
CachePut ==
  /\ \E i \in DOMAIN inflight :
        /\ inflight[i].stage = "putting"
        /\ caches' = Stored(caches, CACHE_NAME, inflight[i].request.url,
                            inflight[i].response)
        /\ inflight' = Without(inflight, i)
        /\ event' = [type |-> "stored", request |-> inflight[i].request,
                      response |-> inflight[i].response]
        /\ effects' = <<>>
  /\ UNCHANGED <<phase, names, appVars>>

\* fetch(request) has rejected: the catch callback reads the Accept header
\* (a TypeError without one, which rejects respondWith's promise), returns
\* caches.match('/index.html') for a navigation and nothing otherwise.
NetworkFails ==
  /\ \E i \in DOMAIN inflight :
        /\ inflight[i].stage = "fetching"
        /\ LET request == inflight[i].request
           IN  /\ event' = [type |-> "catch", request |-> request]
               /\ IF request.accept = NoAccept
                  THEN effects' = << [op |-> "reject", with |-> "TypeError"] >>
                  ELSE IF IncludesTextHtml(request.accept)
                  THEN \E cached \in MatchResults(caches, "/index.html") :
                         effects' = << [op |-> "match", url |-> "/index.html"],
                                       [op |-> "respond", with |-> cached] >>
                  ELSE effects' = << [op |-> "respond", with |-> Undefined] >>
        /\ inflight' = Without(inflight, i)
  /\ UNCHANGED <<phase, caches, names, appVars>>

NextSW ==
  \/ InstallSucceeds
  \/ InstallFails
  \/ ActivateStart
  \/ ActivateDelete
  \/ ActivateDone
  \/ FetchEvent
  \/ NetworkResponds
  \/ CachePut
  \/ NetworkFails

SpecSW == InitSW /\ [][NextSW]_vars

(***************************************************************************)
(* Properties of the calculators                                           *)
(***************************************************************************)

\* The number a bound numeric field of the calculator parses to.
Parsed(f) == ParseFloat(fields[f])

\* The placeholder of each text output.
Placeholder(c) ==
  [o \in Outputs(c) |->
     CASE o = "evm-spi" -> "SPI: " \o EMDASH
       [] o = "evm-cpi" -> "CPI: " \o EMDASH
       [] o = "evm-eac" -> "EAC: " \o EMDASH
       [] OTHER -> EMDASH]

\* The draw function of each calculator.
Renderer(c) ==
  CASE c = "volume" -> "drawSiteVolume"
    [] c = "runoff" -> "drawRunoffBar"
    [] c = "shear" -> "drawShearDiagram"
    [] c = "bearing" -> "drawBearingBar"
    [] c = "beam" -> "drawBeamDeflection"
    [] c = "buckling" -> "drawBucklingColumn"
    [] c = "flow" -> "drawFundamentalDiagram"
    [] c = "ssd" -> "drawStoppingDistance"
    [] c = "do" -> "drawDOSag"
    [] c = "manning" -> "drawManningChannel"
    [] c = "evm" -> "drawEVMGauges"

\* The two states of a calculator.  NotComputable: every text output shows
\* its placeholder, the canvas is blank, no draw function was called.
\* Computable: no text output shows a placeholder or a message, the draw
\* function was called and the canvas is not blank.
NotComputable ==
  /\ text = Placeholder(calc)
  /\ Blank(canvas)
  /\ drawCall = "none"
FormattedText ==
  \A o \in Outputs(calc) :
     text[o] \notin {Placeholder(calc)[o], "Invalid parameters", MarkupText}
Computable ==
  /\ FormattedText
  /\ drawCall = Renderer(calc)
  /\ ~Blank(canvas)

\* The validity of the current inputs, field by field: every numeric field
\* parses, and the fields each calculator constrains are in range.
Positive(f) == Gt(Parsed(f), Zero)
NonNegative(f) == Le(Zero, Parsed(f))
AllParse == \A f \in NumericFields(calc) : ~IsNaN(Parsed(f))
ValidInputs ==
  /\ AllParse
  /\ CASE calc = "volume" -> Positive("site-length")
       [] calc = "runoff" -> \A f \in NumericFields(calc) : NonNegative(f)
       [] calc = "shear" -> TRUE
       [] calc = "bearing" -> Positive("bear-b")
       [] calc = "ssd" -> Positive("ssd-v") /\ Positive("ssd-tr")
       [] calc = "do" -> /\ \A f \in NumericFields(calc) : NonNegative(f)
                         /\ Parsed("do-k1") # Parsed("do-k2")
       [] OTHER -> \A f \in NumericFields(calc) : Positive(f)

\* C1: after an input event, if any bound numeric field of the calculator
\* does not parse (parseFloat gives NaN), the calculator is NotComputable:
\* every text output shows its placeholder, the canvas is cleared and no
\* draw function was called, whatever the other fields hold.
C1_UnparsedIsNotComputable == (handled /\ ~AllParse) => NotComputable

\* A handler has run with exactly one field unparsed and all others in range.
C1_Witness ==
  /\ handled
  /\ calc = "evm"
  /\ fields["evm-ac"] = Empty
  /\ \A f \in NumericFields(calc) \ {"evm-ac"} : Positive(f)
  /\ NotComputable

\* The sum of the three bearing capacity terms for the current inputs.
BearingTotal ==
  LET phiRad == Div(Mul(Parsed("bear-phi"), MathPI), N(180))
      Nq == BearingNq(phiRad)
  IN  Add(Add(Mul(Parsed("bear-c"), BearingNc(phiRad, Nq)),
              Mul(Parsed("bear-q"), Nq)),
          Mul(Mul(Mul(Dec(5, -1), Parsed("bear-gamma")), Parsed("bear-b")),
              BearingNgamma(phiRad, Nq)))

\* f + G <= 0 in the stopping sight distance calculator.
SSDGradeCancelsFriction == Le(Add(Parsed("ssd-f"), Parsed("ssd-g")), Zero)

\* The third state of the stopping sight distance calculator.
InvalidParameters ==
  /\ text = [o \in Outputs("ssd") |-> "Invalid parameters"]
  /\ Blank(canvas)
  /\ drawCall = "none"

C3_HistoryIndependent ==
  handled =>
    LET fresh == Handler(calc, fields, [o \in Outputs(calc) |-> MarkupText],
                         [ctx |-> DefaultCtx, path |-> <<>>, canvas |-> <<>>])
    IN  text = fresh.text /\ canvas = fresh.st.canvas

\* C8: in the DO sag calculator, when k1 and k2 parse to the same number the
\* handler has cleared the canvas and has not called drawDOSag.
C8_EqualRatesNotComputable ==
  (handled /\ calc = "do" /\ Parsed("do-k1") = Parsed("do-k2"))
    => (Blank(canvas) /\ drawCall = "none")

\* k1 and k2 are different texts of the same number, La and Da are in range.
C8_Witness ==
  /\ handled
  /\ calc = "do"
  /\ fields["do-k1"] = <<"2">>
  /\ fields["do-k2"] = <<"2", ".", "0">>
  /\ NonNegative("do-la")
  /\ NonNegative("do-da")
  /\ Blank(canvas)

\* The texts toFixed gives a number that is not finite.
NotFiniteText == {"NaN kPa", "Infinity kPa", "-Infinity kPa"}

\* C9: in the bearing capacity calculator, a friction angle of 0 with all
\* fields valid gives a non-zero divisor of Nc, a finite Nc and a displayed
\* q_ult that is a finite number.
C9_ZeroAngleFinite ==
  (handled /\ calc = "bearing" /\ ValidInputs /\ Parsed("bear-phi") = Zero)
    => /\ MathTan(OrEps(Zero)) # Zero
       /\ IsFinite(BearingNc(Zero, BearingNq(Zero)))
       /\ FormattedText
       /\ text["bear-qult"] \notin NotFiniteText

\* The bearing capacity handler has run on valid inputs with phi = 0.
C9_Witness ==
  /\ handled
  /\ calc = "bearing"
  /\ ValidInputs
  /\ fields["bear-phi"] = Nought
  /\ drawCall = "drawBearingBar"

\* A coordinate on the canvas; a call with a coordinate that is not finite
\* paints nothing.
OnX(x) == ~IsFinite(x) \/ (Le(Zero, x) /\ Le(x, W))
OnY(y) == ~IsFinite(y) \/ (Le(Zero, y) /\ Le(y, H))
\* A step of a path inside the canvas; the arcs drawn are the half circle
\* above the centre (from pi) and the full circle (from 0).
StepInside(step) ==
  CASE step[1] \in {"moveTo", "lineTo"} -> OnX(step[2][1]) /\ OnY(step[2][2])
    [] step[1] = "arc" ->
         /\ OnX(Sub(step[2][1], step[2][3]))
         /\ OnX(Add(step[2][1], step[2][3]))
         /\ OnY(Sub(step[2][2], step[2][3]))
         /\ OnY(IF step[2][4] = Zero THEN Add(step[2][2], step[2][3])
                ELSE step[2][2])
    [] OTHER -> TRUE
\* A painted bar, arrow or shape inside the canvas (labels are not shapes).
Inside(p) ==
  CASE p.op \in {"fillRect", "strokeRect"} ->
         /\ OnX(p.g[1]) /\ OnX(Add(p.g[1], p.g[3]))
         /\ OnY(p.g[2]) /\ OnY(Add(p.g[2], p.g[4]))
    [] p.op \in {"fill", "stroke"} ->
         \A i \in DOMAIN p.g : StepInside(p.g[i])
    [] OTHER -> TRUE

\* C10, for the four shapes it names: after drawBucklingColumn,
\* drawRunoffBar, drawStoppingDistance or drawManningChannel has run, every
\* bar, arrow and shape on the canvas lies inside the canvas rectangle
\* [0, width] x [0, height].
C10_DrawnInsideCanvas ==
  (handled /\ drawCall \in {"drawBucklingColumn", "drawRunoffBar",
                            "drawStoppingDistance", "drawManningChannel"})
    => \A i \in DOMAIN canvas : Inside(canvas[i])

(***************************************************************************)
(* Properties of the service worker                                        *)
(***************************************************************************)

\* The last step handled a fetch event for a GET request.
GetHandled == event.type = "fetch" /\ event.request.method = "GET"

\* The last step responded with a response found in a cache.
ServedFromCache ==
  /\ Len(effects) = 3
  /\ effects[3].op = "respond"
  /\ effects[3].with # Undefined

\* C4: a GET with a cached match is answered with that cached response and
\* without a network fetch; a GET without one is fetched; when the network
\* answers, the live response is returned and a clone of it is put into the
\* cache 'civil-calculator-v1'; once that put has taken effect the cache
\* holds the clone for the request's URL, so a later GET for it matches.
C4_CacheFirst ==
  /\ GetHandled =>
       IF \E n \in DOMAIN caches : event.request.url \in DOMAIN caches[n]
       THEN /\ ServedFromCache
            /\ \E n \in DOMAIN caches :
                  /\ event.request.url \in DOMAIN caches[n]
                  /\ effects[3].with = caches[n][event.request.url]
            /\ \A k \in DOMAIN effects : effects[k].op # "fetch"
       ELSE /\ \E k \in DOMAIN effects :
                  effects[k] = [op |-> "fetch", url |-> event.request.url]
            /\ \A k \in DOMAIN effects : effects[k].op # "respond"
            /\ \E i \in DOMAIN inflight :
                  /\ inflight[i].request = event.request
                  /\ inflight[i].stage = "fetching"
  /\ event.type = "then" =>
       \E body \in Versions :
          /\ effects[3] = [op |-> "respond",
                           with |-> [url |-> event.request.url, body |-> body]]
          /\ effects[2] = [op |-> "put", url |-> event.request.url,
                           response |-> [url |-> event.request.url,
                                         body |-> body]]
          /\ effects[1] = [op |-> "open", name |-> "civil-calculator-v1"]
          /\ \E i \in DOMAIN inflight :
                /\ inflight[i].request = event.request
                /\ inflight[i].stage = "putting"
                /\ inflight[i].response = effects[2].response
  /\ event.type = "stored" =>
       /\ "civil-calculator-v1" \in DOMAIN caches
       /\ event.request.url \in DOMAIN caches["civil-calculator-v1"]
       /\ caches["civil-calculator-v1"][event.request.url] = event.response

\* A GET for a URL that install did not cache is answered from the cache.
C4_Witness ==
  /\ GetHandled
  /\ event.request.url = "/about"
  /\ ServedFromCache
  /\ effects[3].with.url = "/about"

\* C5: in every state after a successful install the cache
\* 'civil-calculator-v1' holds the root document '/index.html', and when the
\* network fetch of a GET without a cached match fails and the request's
\* Accept header names text/html, the handler responds with that document.
C5_OfflineFallback ==
  /\ phase \in {"installed", "activating", "activated"} =>
       /\ "civil-calculator-v1" \in DOMAIN caches
       /\ "/index.html" \in DOMAIN caches["civil-calculator-v1"]
  /\ (event.type = "catch" /\ event.request.accept = HtmlAccept) =>
       /\ Len(effects) = 2
       /\ effects[2].op = "respond"
       /\ effects[2].with = caches["civil-calculator-v1"]["/index.html"]
       /\ effects[2].with.url = "/index.html"

\* The network failed for the navigation to /about, which has no cached
\* match, and the handler responded.
C5_Witness ==
  /\ event.type = "catch"
  /\ event.request = Request("GET", "/about", HtmlAccept)
  /\ "/about" \notin DOMAIN caches["civil-calculator-v1"]
  /\ effects[2].op = "respond"

\* C6: when the activate handler has completed, none of the caches that
\* were present when it started and whose name differs from
\* 'civil-calculator-v1' exists; activation deletes no cache of that name,
\* which exists throughout.
C6_ActivateCleans ==
  /\ phase = "activated" =>
       \A name \in names :
          name # "civil-calculator-v1" => name \notin DOMAIN caches
  /\ phase \in {"activating", "activated"} =>
       /\ "civil-calculator-v1" \in names
       /\ "civil-calculator-v1" \in DOMAIN caches
       /\ PRECACHE \subseteq DOMAIN caches["civil-calculator-v1"]
  /\ event.type = "delete" => event.name # "civil-calculator-v1"

\* Activation has completed in an origin that held two other caches.
C6_Witness ==
  /\ phase = "activated"
  /\ names = {"civil-calculator-v0", "tiles", "civil-calculator-v1"}
  /\ DOMAIN caches = {"civil-calculator-v1"}

\* C7: a step that handles a fetch event for a request whose method is not
\* GET calls nothing (no respondWith, no cache match, no put, no network
\* fetch) and leaves the caches and the pending fetches as they were.
C7_NonGetUntouched ==
  [][(event'.type = "fetch" /\ event'.request.method # "GET") =>
        /\ effects' = <<>>
        /\ caches' = caches
        /\ inflight' = inflight]_vars

\* A POST was handled while a fetch of the worker's own was pending.
C7_Witness ==
  /\ event.type = "fetch"
  /\ event.request.method = "POST"
  /\ effects = <<>>
  /\ inflight # <<>>

(***************************************************************************)
(* Further properties of the calculators                                   *)
(***************************************************************************)

\* What the calculator's handler gives the current field values on an
\* untouched context and canvas.
FreshRun ==
  Handler(calc, fields, [o \in Outputs(calc) |-> MarkupText],
          [ctx |-> DefaultCtx, path |-> <<>>, canvas |-> <<>>])

\* C11: when the fields have been bound and before any input event, the
\* handler has run once on the values the markup gives the fields, so for
\* values that pass the handler's validation the text outputs show the
\* formatted result and the canvas shows the diagram the handler draws for
\* them.
C11_RunAtBinding ==
  (~handled /\ ValidInputs) =>
     /\ text = FreshRun.text
     /\ canvas = FreshRun.st.canvas
     /\ drawCall = FreshRun.called

\* The selected method of the site volume calculator is average end area.
AverageEndArea == fields["site-method"] = <<"a", "v", "g">>

\* (A1 + A2) / 2 * L for the current fields.
AverageEndAreaVolume ==
  Mul(Div(Add(Parsed("site-a1"), Parsed("site-a2")), N(2)),
      Parsed("site-length"))

\* C12: with average end area selected and A1, A2 parsed and L > 0, the
\* site volume output is (A1 + A2) / 2 * L to two decimals followed by
\* ' m^3' (the cube written in ASCII); for A1 = 10, A2 = 20, L = 5 it is
\* '75.00 m^3'.
C12_AverageEndAreaText ==
  (handled /\ calc = "volume" /\ AverageEndArea /\ ValidInputs) =>
     /\ text["site-volume"] = ToFixed(AverageEndAreaVolume, 2) \o " m^3"
     /\ (/\ fields["site-a1"] = <<"1", "0">>
         /\ fields["site-a2"] = <<"2", "0">>
         /\ fields["site-length"] = <<"5">>)
          => text["site-volume"] = "75.00 m^3"

\* The handler has run on A1 = 10, A2 = 20, L = 5 with average end area.
C12_Witness ==
  /\ handled
  /\ calc = "volume"
  /\ AverageEndArea
  /\ fields["site-a1"] = <<"1", "0">>
  /\ fields["site-a2"] = <<"2", "0">>
  /\ fields["site-length"] = <<"5">>
  /\ text["site-volume"] = "75.00 m^3"

\* The text the site volume handler gives the current fields with the
\* method selector at value method.
VolumeTextWith(method) ==
  updateVolume([fields EXCEPT !["site-method"] = method], text,
               Context).text["site-volume"]

\* C14: for valid A1, A2 and L the displayed site volume is the same
\* whichever method is selected, the prismoidal branch with mid-area
\* (A1 + A2) / 2 giving the average end area value.
C14_MethodsAgree ==
  (handled /\ calc = "volume" /\ ValidInputs) =>
     VolumeTextWith(<<"a", "v", "g">>) = VolumeTextWith(<<"p", "r", "i", "s", "m">>)

\* The three bearing capacity terms for the current fields, in the order
\* drawBearingBar stacks them.
BearingTerms ==
  LET phiRad == Div(Mul(Parsed("bear-phi"), MathPI), N(180))
      Nq == BearingNq(phiRad)
  IN  << Mul(Parsed("bear-c"), BearingNc(phiRad, Nq)),
         Mul(Parsed("bear-q"), Nq),
         Mul(Mul(Mul(Dec(5, -1), Parsed("bear-gamma")), Parsed("bear-b")),
             BearingNgamma(phiRad, Nq)) >>

\* The stacked bar has been drawn: three segments, then the frame.
BearingBarDrawn ==
  /\ handled
  /\ drawCall = "drawBearingBar"
  /\ Len(canvas) >= 4
  /\ \A i \in 1..3 : canvas[i].op = "fillRect"
  /\ canvas[4].op = "strokeRect"

\* Segment i of the drawn bar lies inside the outlined frame.
SegmentInFrame(i) ==
  /\ Le(canvas[4].g[1], canvas[i].g[1])
  /\ Le(Add(canvas[i].g[1], canvas[i].g[3]),
        Add(canvas[4].g[1], canvas[4].g[3]))
  /\ Le(canvas[4].g[2], canvas[i].g[2])
  /\ Le(Add(canvas[i].g[2], canvas[i].g[4]),
        Add(canvas[4].g[2], canvas[4].g[4]))

\* C13: whenever the bearing capacity bar is drawn, each of the three
\* segment heights is between 0 and canvas.height - 20 and is its term's
\* share of the total times canvas.height - 20, the heights sum to
\* canvas.height - 20 (to within a pixel of rounding), and every segment
\* lies inside the outlined frame.
C13_SegmentsShareFrame ==
  BearingBarDrawn =>
    /\ \A i \in 1..3 :
          /\ Le(Zero, canvas[i].g[4])
          /\ Le(canvas[i].g[4], Sub(H, N(20)))
          /\ canvas[i].g[4] =
               Mul(Div(BearingTerms[i], BearingTotal), Sub(H, N(20)))
          /\ SegmentInFrame(i)
    /\ Le(MathAbs(Sub(Add(Add(canvas[1].g[4], canvas[2].g[4]),
                          canvas[3].g[4]),
                      Sub(H, N(20)))),
          N(1))

(***************************************************************************)
(* Further properties of the service worker                                *)
(***************************************************************************)

\* C15: once the worker is activated, an entry of the cache
\* 'civil-calculator-v1' is neither replaced nor removed by any step of the
\* fetch handler: whatever is stored for a URL stays stored, unchanged, so
\* every later GET for it is answered with the same response.
C15_EntriesKept ==
  [][(phase = "activated" /\ "civil-calculator-v1" \in DOMAIN caches) =>
       \A url \in DOMAIN caches["civil-calculator-v1"] :
          /\ "civil-calculator-v1" \in DOMAIN caches'
          /\ url \in DOMAIN caches'["civil-calculator-v1"]
          /\ caches'["civil-calculator-v1"][url] =
               caches["civil-calculator-v1"][url]]_vars

====
